---- MODULE Spec2Model ----
(***************************************************************************)
(* Tavern Dashboard: the ledger normalizer, the ledger source adapters      *)
(* (local file, remote fetch with and without cache), the player lookup,    *)
(* the upload endpoint and the status route, as found in the four source    *)
(* files of the repository.  The four files are four revisions of the same  *)
(* server; the variable `variant` says which revision is running.           *)
(***************************************************************************)
EXTENDS Integers, Sequences, FiniteSets, TLC

(***************************************************************************)
(* JavaScript values.  Every value is a record with the same fields so that *)
(* any two values can be compared: t is the type tag, n the number (or 1/0  *)
(* for a boolean), s the string, a the elements of an array of strings.     *)
(* A missing property and the value undefined are the same value (Undef),   *)
(* as they are for property reads and for JSON.stringify.                   *)
(***************************************************************************)
Undef == [t |-> "undef", n |-> 0, s |-> "", a |-> <<>>]

Null == [t |-> "null", n |-> 0, s |-> "", a |-> <<>>]

Num(k) == [t |-> "num", n |-> k, s |-> "", a |-> <<>>]

Str(x) == [t |-> "str", n |-> 0, s |-> x, a |-> <<>>]

Bool(b) == [t |-> "bool", n |-> IF b THEN 1 ELSE 0, s |-> "", a |-> <<>>]

Arr(xs) == [t |-> "arr", n |-> 0, s |-> "", a |-> xs]

ObjV == [t |-> "obj", n |-> 0, s |-> "", a |-> <<>>]

\* ToBoolean: undefined, null, 0, "" and false are falsy, everything else truthy
Truthy(v) ==
  CASE v.t = "undef" -> FALSE
    [] v.t = "null" -> FALSE
    [] v.t = "num" -> v.n # 0
    [] v.t = "str" -> v.s # ""
    [] v.t = "bool" -> v.n = 1
    [] OTHER -> TRUE

\* a || b
Or(a, b) == IF Truthy(a) THEN a ELSE b

\* a ?? b
Coalesce(a, b) == IF a.t \in {"undef", "null"} THEN b ELSE a

IsArray(v) == v.t = "arr"

\* Number.isFinite: a number (JSON text carries no NaN or Infinity)
IsFinite(v) == v.t = "num"

\* String.prototype.toLowerCase on the strings the model uses
toLowerCase(x) ==
  CASE x = "Rex" -> "rex"
    [] x = "REX" -> "rex"
    [] x = "Ann" -> "ann"
    [] OTHER -> x

RECURSIVE JoinComma(_)
JoinComma(xs) ==
  IF xs = <<>> THEN ""
  ELSE IF Len(xs) = 1 THEN xs[1]
  ELSE xs[1] \o "," \o JoinComma(Tail(xs))

\* Object.prototype.toString / Number / Boolean / Array toString
toString(v) ==
  CASE v.t = "str" -> v.s
    [] v.t = "num" -> ToString(v.n)
    [] v.t = "bool" -> IF v.n = 1 THEN "true" ELSE "false"
    [] v.t = "arr" -> JoinComma(v.a)
    [] OTHER -> "[object Object]"

\* new Date(ms).toISOString()
toISOString(ms) == Str("T" \o ToString(ms))

(***************************************************************************)
(* Raw player entries: an element of a players array.  t is the entry's    *)
(* own type; an entry that is not an object reads as Undef on every field. *)
(***************************************************************************)
EntryFields ==
  {"username", "name", "user", "currentTitle", "titles", "gold", "health",
   "drunkenness", "honour", "questsCompleted", "inventory", "usernameLower"}

BlankEntry ==
  [t |-> "obj", n |-> 0, s |-> "",
   username |-> Undef, name |-> Undef, user |-> Undef,
   currentTitle |-> Undef, titles |-> Undef, gold |-> Undef,
   health |-> Undef, drunkenness |-> Undef, honour |-> Undef,
   questsCompleted |-> Undef, inventory |-> Undef, usernameLower |-> Undef]

NullEntry == [BlankEntry EXCEPT !.t = "null"]

NumEntry(k) == [BlankEntry EXCEPT !.t = "num", !.n = k]

\* reading a property of null (or undefined) is a TypeError
ReadThrows(p) == p.t \in {"null", "undef"}

(***************************************************************************)
(* Raw documents.  A players-list value (PL) is any JavaScript value found  *)
(* under players / playerList: elems holds the entries when it is an array. *)
(* A document (Doc) is any parsed JSON value: lastUpdated, players,         *)
(* playerList and data are its properties (Undef when it has none), elems   *)
(* its elements when the document itself is an array.  data is a document   *)
(* without a data property of its own.                                      *)
(***************************************************************************)
PL(tag, k, x, es) == [t |-> tag, n |-> k, s |-> x, elems |-> es]

UndefPL == PL("undef", 0, "", <<>>)

ArrPL(es) == PL("arr", 0, "", es)

NumPL(k) == PL("num", k, "", <<>>)

StrPL(x) == PL("str", 0, x, <<>>)

ObjPL == PL("obj", 0, "", <<>>)

InnerFields == {"t", "n", "s", "lastUpdated", "players", "playerList", "elems"}

Inner(tag, lu, ps, pl, es) ==
  [t |-> tag, n |-> 0, s |-> "", lastUpdated |-> lu, players |-> ps,
   playerList |-> pl, elems |-> es]

UndefInner == Inner("undef", Undef, UndefPL, UndefPL, <<>>)

Doc(tag, lu, ps, pl, d, es) ==
  [t |-> tag, n |-> 0, s |-> "", lastUpdated |-> lu, players |-> ps,
   playerList |-> pl, data |-> d, elems |-> es]

\* {}
EmptyObjDoc == Doc("obj", Undef, UndefPL, UndefPL, UndefInner, <<>>)

\* the JSON value null
NullDoc == Doc("null", Undef, UndefPL, UndefPL, UndefInner, <<>>)

\* a JSON number k
NumDoc(k) == [EmptyObjDoc EXCEPT !.t = "num", !.n = k]

\* a JSON array of entries
ArrDoc(es) == Doc("arr", Undef, UndefPL, UndefPL, UndefInner, es)

\* { lastUpdated: "Never", players: [] }
BlankLedgerDoc == Doc("obj", Str("Never"), ArrPL(<<>>), UndefPL, UndefInner, <<>>)

(***************************************************************************)
(* JSON text.  A text is either not JSON at all (ok = FALSE) or the         *)
(* serialization of a document.  JSON.parse throws on the former.           *)
(***************************************************************************)
Text(d) == [ok |-> TRUE, doc |-> d]

NotJson == [ok |-> FALSE, doc |-> NullDoc]

ParseThrows(raw) == ~raw.ok

JSONparse(raw) == raw.doc

(***************************************************************************)
(* Normalized player records and the value normalizeData returns.  shape    *)
(* is "ledger" for { lastUpdated, players } and "list" for the bare array   *)
(* of records that part_002 returns; threw says the call raised instead.    *)
(***************************************************************************)
Rec(un, ul, ct, ts, g, h, d, ho, q, inv) ==
  [username |-> un, usernameLower |-> ul, currentTitle |-> ct, titles |-> ts,
   gold |-> g, health |-> h, drunkenness |-> d, honour |-> ho,
   questsCompleted |-> q, inventory |-> inv]

Result(sh, lu, ps) == [threw |-> FALSE, shape |-> sh, lastUpdated |-> lu, players |-> ps]

Throw == [threw |-> TRUE, shape |-> "none", lastUpdated |-> Undef, players |-> <<>>]

\* { lastUpdated: "Never", players: [] } as a value
EmptyLedger == Result("ledger", Str("Never"), <<>>)

\* JSON.stringify of a normalized record: an object entry, undefined properties dropped
RecToEntry(r) ==
  [BlankEntry EXCEPT !.username = r.username, !.usernameLower = r.usernameLower,
                     !.currentTitle = r.currentTitle, !.titles = r.titles,
                     !.gold = r.gold, !.health = r.health,
                     !.drunkenness = r.drunkenness, !.honour = r.honour,
                     !.questsCompleted = r.questsCompleted,
                     !.inventory = r.inventory]

\* JSON.stringify of a value returned by normalizeData
JSONstringify(L) ==
  LET es == [i \in 1..Len(L.players) |-> RecToEntry(L.players[i])]
  IN IF L.shape = "list"
       THEN Text(ArrDoc(es))
       ELSE Text(Doc("obj", L.lastUpdated, ArrPL(es), UndefPL, UndefInner, <<>>))

\* JSON.stringify of a parsed request body
JSONstringifyDoc(d) == Text(d)

(***************************************************************************)
(* normalizeData, server.js:55-92 (the same text is part_001:228-262).      *)
(***************************************************************************)
\* server.js:70  (p.username || p.name || p.user || "").toString()
Uname(p) == Str(toString(Or(p.username, Or(p.name, Or(p.user, Str(""))))))

\* server.js:69-88, the callback of players.map
NormalizePlayer(p) ==
  LET uname == Uname(p)
  IN Rec(uname,
         Str(toLowerCase(uname.s)),
         IF IsArray(p.titles) /\ Len(p.titles.a) # 0
           THEN Or(p.currentTitle, Or(Str(p.titles.a[1]), Str("Regular")))
           ELSE Or(p.currentTitle, Str("Regular")),
         IF IsArray(p.titles) THEN p.titles ELSE Arr(<<"Regular">>),
         IF IsFinite(p.gold) THEN p.gold ELSE Num(0),
         IF IsFinite(p.health) THEN p.health ELSE Num(100),
         IF IsFinite(p.drunkenness) THEN p.drunkenness ELSE Num(0),
         IF IsFinite(p.honour) THEN p.honour ELSE Num(0),
         IF IsFinite(p.questsCompleted) THEN p.questsCompleted ELSE Num(0),
         IF IsArray(p.inventory) THEN p.inventory ELSE Arr(<<>>))

\* server.js:63-67 without the legacy name playerList
ResolvePlayers_noLegacy(parsed) ==
  Or(parsed.players,
     Or(IF Truthy(parsed.data) THEN parsed.data.players ELSE UndefPL,
        IF IsArray(parsed) THEN ArrPL(parsed.elems) ELSE ArrPL(<<>>)))

\* server.js:63-67
ResolvePlayers(parsed) ==
  Or(parsed.playerList,
     Or(parsed.players,
        Or(IF Truthy(parsed.data)
             THEN Or(parsed.data.playerList, parsed.data.players)
             ELSE UndefPL,
           IF IsArray(parsed) THEN ArrPL(parsed.elems) ELSE ArrPL(<<>>))))

\* server.js:90 without the raw lastUpdated
ResolveLastUpdated_alwaysNow(parsed, now) == toISOString(now)

\* server.js:90
ResolveLastUpdated(parsed, now) == Or(parsed.lastUpdated, toISOString(now))

normalizeData(rawJson, now) ==
  LET parsed == IF ParseThrows(rawJson) THEN EmptyObjDoc ELSE JSONparse(rawJson)
  IN IF ReadThrows(parsed) THEN Throw
     ELSE LET players == ResolvePlayers(parsed)
          IN IF ~IsArray(players) THEN Throw
             ELSE IF \E i \in 1..Len(players.elems) : ReadThrows(players.elems[i])
               THEN Throw
             ELSE Result("ledger",
                         ResolveLastUpdated(parsed, now),
                         [i \in 1..Len(players.elems) |->
                            NormalizePlayer(players.elems[i])])

(***************************************************************************)
(* normalizeData, part_000:69-99 (the local-file revision).                 *)
(***************************************************************************)
\* part_000:82  p.username || p.name || p.user || ""
Uname_part_000(p) == Or(p.username, Or(p.name, Or(p.user, Str(""))))

\* part_000:85  uname.toLowerCase() exists on strings only
LowerThrows(uname) == uname.t # "str"

\* part_000:81-95
NormalizePlayer_part_000(p) ==
  LET uname == Uname_part_000(p)
  IN Rec(uname,
         Str(toLowerCase(uname.s)),
         Or(p.currentTitle, Str("Regular")),
         IF IsArray(p.titles) THEN p.titles ELSE Arr(<<"Regular">>),
         Coalesce(p.gold, Num(0)),
         Coalesce(p.health, Num(100)),
         Coalesce(p.drunkenness, Num(0)),
         Coalesce(p.honour, Num(0)),
         Coalesce(p.questsCompleted, Num(0)),
         IF IsArray(p.inventory) THEN p.inventory ELSE Arr(<<>>))

\* part_000:77  parsed.data || parsed
WorkingObject(parsed) ==
  IF Truthy(parsed.data) THEN parsed.data
  ELSE [f \in InnerFields |-> parsed[f]]

\* part_000:78-79
ResolvePlayers_part_000(data) ==
  Or(data.players,
     Or(data.playerList,
        IF IsArray(data) THEN ArrPL(data.elems) ELSE ArrPL(<<>>)))

normalizeData_part_000(rawJson, now) ==
  LET parsed == IF ParseThrows(rawJson) THEN BlankLedgerDoc ELSE JSONparse(rawJson)
  IN IF ReadThrows(parsed) THEN Throw
     ELSE LET players == ResolvePlayers_part_000(WorkingObject(parsed))
          IN IF ~IsArray(players) THEN Throw
             ELSE IF \E i \in 1..Len(players.elems) :
                        \/ ReadThrows(players.elems[i])
                        \/ LowerThrows(Uname_part_000(players.elems[i]))
               THEN Throw
             ELSE Result("ledger",
                         Or(parsed.lastUpdated, toISOString(now)),
                         [i \in 1..Len(players.elems) |->
                            NormalizePlayer_part_000(players.elems[i])])

(***************************************************************************)
(* normalizeData, part_002:51-74 (the cacheless remote revision): returns   *)
(* the bare array of records, which carry no titles property.               *)
(***************************************************************************)
\* part_002:62-72
NormalizePlayer_part_002(p) ==
  Rec(Or(p.username, Str("")),
      Str(toLowerCase(Or(p.username, Str("")).s)),
      Or(p.currentTitle, Str("Regular")),
      Undef,
      Or(p.gold, Num(0)),
      Or(p.health, Num(100)),
      Or(p.drunkenness, Num(0)),
      Or(p.honour, Num(0)),
      Or(p.questsCompleted, Num(0)),
      Or(p.inventory, Arr(<<>>)))

\* part_002:58-61
ResolvePlayers_part_002(parsed) ==
  Or(parsed.playerList,
     Or(parsed.players,
        IF IsArray(parsed) THEN ArrPL(parsed.elems) ELSE ArrPL(<<>>)))

normalizeData_part_002(rawJson, now) ==
  LET parsed == IF ParseThrows(rawJson) THEN EmptyObjDoc ELSE JSONparse(rawJson)
  IN IF ReadThrows(parsed) THEN Throw
     ELSE LET players == ResolvePlayers_part_002(parsed)
          IN IF ~IsArray(players) THEN Throw
             ELSE IF \E i \in 1..Len(players.elems) :
                        \/ ReadThrows(players.elems[i])
                        \/ LowerThrows(Or(players.elems[i].username, Str("")))
               THEN Throw
             ELSE Result("list", Undef,
                         [i \in 1..Len(players.elems) |->
                            NormalizePlayer_part_002(players.elems[i])])

(***************************************************************************)
(* Bounds and the inputs drawn within them.                                 *)
(***************************************************************************)
\* longest players array in an input document
MaxPlayers == 2

\* how far the clock may run past its start, in milliseconds
MaxElapsed == 15000

\* how many loadLedger calls, uploads and status requests one run makes
MaxLoads == 2

MaxRequests == 2

\* Date.now() when the server starts
StartMs == 100000

\* the clock advances by one of these amounts
TickSteps == {7500}

\* {"username":"Rex","gold":150}
E_Rex == [BlankEntry EXCEPT !.username = Str("Rex"), !.gold = Num(150)]

\* {"name":"Ann"}
E_Ann == [BlankEntry EXCEPT !.name = Str("Ann")]

\* {"user":"REX","titles":["Knight","Regular"],"inventory":["ale"],"health":0}
E_User ==
  [BlankEntry EXCEPT !.user = Str("REX"), !.titles = Arr(<<"Knight", "Regular">>),
                     !.inventory = Arr(<<"ale">>), !.health = Num(0)]

\* a record as normalizeData writes it
E_Full ==
  [BlankEntry EXCEPT !.username = Str("rex"), !.usernameLower = Str("rex"),
                     !.currentTitle = Str("Baron"), !.titles = Arr(<<"Baron">>),
                     !.gold = Num(5), !.health = Num(90), !.drunkenness = Num(1),
                     !.honour = Num(2), !.questsCompleted = Num(3),
                     !.inventory = Arr(<<"ale", "key">>)]

\* {"username":"Ann","gold":"not a number","health":null,"drunkenness":true,
\*  "titles":"x","inventory":{},"currentTitle":"","usernameLower":"ZZ"}
E_BadGold ==
  [BlankEntry EXCEPT !.username = Str("Ann"), !.gold = Str("not a number"),
                     !.health = Null, !.drunkenness = Bool(TRUE),
                     !.titles = Str("x"), !.inventory = ObjV,
                     !.currentTitle = Str(""), !.usernameLower = Str("ZZ")]

\* {"username":5}
E_NumName == [BlankEntry EXCEPT !.username = Num(5)]

\* {"username":"Ann","titles":[]}
E_EmptyTitles == [BlankEntry EXCEPT !.username = Str("Ann"), !.titles = Arr(<<>>)]

Entries ==
  {E_Rex, E_Ann, E_User, E_Full, E_BadGold, E_NumName, E_EmptyTitles,
   BlankEntry, NullEntry, NumEntry(7)}

RECURSIVE SeqsUpTo(_, _)
SeqsUpTo(S, k) ==
  IF k = 0 THEN {<<>>}
  ELSE LET shorter == SeqsUpTo(S, k - 1)
       IN shorter \cup {Append(q, e) : q \in shorter, e \in S}

EntryLists == SeqsUpTo(Entries, MaxPlayers)

\* the document shapes a writer sends: players, legacy playerList, wrapped in
\* data, a bare array, both fields at once, with and without lastUpdated
DocsOver(L) ==
  {Doc("obj", Undef, ArrPL(L), UndefPL, UndefInner, <<>>),
   Doc("obj", Undef, UndefPL, ArrPL(L), UndefInner, <<>>),
   Doc("obj", Str("2025-01-01"), ArrPL(L), UndefPL, UndefInner, <<>>),
   Doc("obj", Undef, UndefPL, UndefPL,
       Inner("obj", Undef, ArrPL(L), UndefPL, <<>>), <<>>),
   Doc("obj", Str("2025-01-01"), UndefPL, UndefPL,
       Inner("obj", Str("2024-06-30"), UndefPL, ArrPL(L), <<>>), <<>>),
   Doc("obj", Undef, ArrPL(L), ArrPL(<<E_Ann>>), UndefInner, <<>>),
   ArrDoc(L)}

\* documents that are not ledgers at all
OddDocs ==
  {NullDoc, NumDoc(5), EmptyObjDoc,
   Doc("obj", Undef, NumPL(5), UndefPL, UndefInner, <<>>),
   Doc("obj", Undef, StrPL("abc"), UndefPL, UndefInner, <<>>),
   Doc("obj", Num(7), ObjPL, UndefPL, UndefInner, <<>>),
   Doc("obj", Undef, UndefPL, UndefPL,
       [Inner("num", Undef, UndefPL, UndefPL, <<>>) EXCEPT !.n = 5], <<>>)}

Docs == OddDocs \cup UNION {DocsOver(L) : L \in EntryLists}

Texts == {NotJson} \cup {Text(d) : d \in Docs}

\* the four revisions of the server
Variants == {"server_js", "part_000", "part_001", "part_002"}

\* the revisions that define normalizeData
NormVariants == {"server_js", "part_000", "part_002"}

normalizeDataOf(v, rawJson, now) ==
  CASE v = "part_000" -> normalizeData_part_000(rawJson, now)
    [] v = "part_002" -> normalizeData_part_002(rawJson, now)
    [] OTHER -> normalizeData(rawJson, now)

(***************************************************************************)
(* State.                                                                   *)
(***************************************************************************)
VARIABLES
  variant,        \* which revision of the server is running
  uploadKey,      \* process.env.UPLOAD_KEY
  clock,          \* Date.now()
  file,           \* the ledger file at PLAYER_DATA_PATH
  cachedLedger,   \* server.js:97
  lastFetchTime,  \* server.js:98
  calls,          \* the /status requests in flight, each awaiting loadLedger
  loads,          \* how many /status requests of the remote revisions started
  resp,           \* the response of the last synchronous handler
  requests,       \* how many requests the file revisions handled
  session,        \* req.session.username of the one browser session ("": none)
  nIn,            \* normalizer harness: the raw text
  nOut,           \* normalizer harness: normalizeData(nIn)
  nOut2,          \* normalizer harness: normalizeData(JSON.stringify(nOut))
  nAlias,         \* normalizer harness: normalizeData of nIn under the other list name
  nPhase          \* normalizer harness: position

vars ==
  <<variant, uploadKey, clock, file, cachedLedger, lastFetchTime, calls, loads,
    resp, requests, session, nIn, nOut, nOut2, nAlias, nPhase>>

serverVars ==
  <<uploadKey, file, cachedLedger, lastFetchTime, calls, loads, resp, requests,
    session>>

harnessVars == <<nIn, nOut, nOut2, nAlias, nPhase>>

Callers == {1, 2}

\* a reference to a Ledger object: id tells two objects with equal fields apart
Ref(i, v) == [isNull |-> FALSE, id |-> i, val |-> v]

NullRef == [isNull |-> TRUE, id |-> 0, val |-> Throw]

\* a response: user is the raw name the lookup was asked for, players the
\* records it scanned and idx the position of the record it found (0: none);
\* auth and body are the header and the body of the request of an upload
Response(st, pg, u, ps, i) ==
  [route |-> "status", status |-> st, page |-> pg, user |-> u, players |-> ps,
   idx |-> i, auth |-> [present |-> FALSE, val |-> ""], body |-> EmptyObjDoc]

\* a response of a route other than /status
Answer(rt, st, pg) == [Response(st, pg, "", <<>>, 0) EXCEPT !.route = rt]

\* a response of POST /api/upload to a request carrying the header auth
UploadAnswer(st, pg, auth) == [Answer("upload", st, pg) EXCEPT !.auth = auth]

NoResponse == Answer("none", 0, "none")

IdleCall ==
  [pc |-> "idle", serial |-> 0, raw |-> "", user |-> "", now |-> 0, ret |-> NullRef,
   fetched |-> FALSE, fetches |-> 0, hit |-> FALSE, outcome |-> "none",
   failed |-> FALSE, resp |-> NoResponse]

AbsentFile(w) == [exists |-> FALSE, writable |-> w, text |-> NotJson]

FileOf(tx) == [exists |-> TRUE, writable |-> TRUE, text |-> tx]

\* the clock moves on
Tick ==
  /\ \E d \in TickSteps :
       /\ clock + d <= StartMs + MaxElapsed
       /\ clock' = clock + d
  /\ UNCHANGED <<variant, serverVars, harnessVars>>

(***************************************************************************)
(* The normalizer on its own: one text in, normalized, serialized and       *)
(* normalized again.                                                        *)
(***************************************************************************)
InitNorm ==
  /\ variant \in NormVariants
  /\ uploadKey = [set |-> FALSE, val |-> ""]
  /\ clock = StartMs
  /\ file = AbsentFile(TRUE)
  /\ cachedLedger = NullRef
  /\ lastFetchTime = 0
  /\ calls = [c \in Callers |-> IdleCall]
  /\ loads = 0
  /\ resp = NoResponse
  /\ requests = 0
  /\ session = ""
  /\ nIn \in Texts
  /\ nOut = Throw
  /\ nOut2 = Throw
  /\ nAlias = Throw
  /\ nPhase = "ready"

\* the same text with the names players and playerList exchanged
AliasTwin(raw) ==
  IF ParseThrows(raw) THEN raw
  ELSE Text([raw.doc EXCEPT
               !.players = raw.doc.playerList,
               !.playerList = raw.doc.players,
               !.data = [@ EXCEPT !.players = raw.doc.data.playerList,
                                  !.playerList = raw.doc.data.players]])

Normalize ==
  /\ nPhase = "ready"
  /\ nOut' = normalizeDataOf(variant, nIn, clock)
  /\ nAlias' = normalizeDataOf(variant, AliasTwin(nIn), clock)
  /\ nPhase' = "normalized"
  /\ UNCHANGED <<variant, clock, serverVars, nIn, nOut2>>

Renormalize ==
  /\ nPhase = "normalized"
  /\ ~nOut.threw
  /\ nOut2' = normalizeDataOf(variant, JSONstringify(nOut), clock)
  /\ nPhase' = "renormalized"
  /\ UNCHANGED <<variant, clock, serverVars, nIn, nOut, nAlias>>

NextNorm == Normalize \/ Renormalize \/ Tick

SpecNorm == InitNorm /\ [][NextNorm]_vars

(***************************************************************************)
(* The server.                                                              *)
(***************************************************************************)
\* server.js:102
cacheDuration == 15 * 1000

\* the revisions that read the ledger from the local file
FileVariants == {"part_000", "part_001"}

\* the revisions that keep a session (part_001:1-161 has none)
SessionVariants == {"server_js", "part_000", "part_002"}

\* what the remote URL may answer with
RemoteTexts ==
  {Text(Doc("obj", Str("2025-01-01"), ArrPL(<<E_Rex, E_Ann>>), UndefPL, UndefInner, <<>>)),
   Text(NullDoc),
   NotJson}

FetchOutcomes == {"ok", "bad_status", "error"}

\* the user query parameter of a request; "" is a request without one
Users == {"", "REX", "bob"}

\* the login names the identity provider reports
Logins == {"Rex"}

\* Array.prototype.find with p => p.usernameLower === user, as an index (0: none)
FindPlayer(players, user) ==
  IF \E i \in 1..Len(players) : players[i].usernameLower = Str(user)
    THEN CHOOSE i \in 1..Len(players) :
           /\ players[i].usernameLower = Str(user)
           /\ \A j \in 1..(i - 1) : players[j].usernameLower # Str(user)
    ELSE 0

\* server.js:205-273, part_000:264-336: the no-data page or the status card
RenderStatus(ledger, raw, user) ==
  LET idx == FindPlayer(ledger.players, user)
  IN IF idx = 0
       THEN Response(200, "nodata", raw, ledger.players, 0)
       ELSE Response(200, "card", raw, ledger.players, idx)

\* server.js:104 without the comparison of the age
IsFresh_ignoresAge(now) == ~cachedLedger.isNull

\* the comparison of server.js:104 turned around
IsFresh_inverted(now) == ~cachedLedger.isNull /\ now - lastFetchTime > cacheDuration

\* server.js:104
IsFresh(now) == ~cachedLedger.isNull /\ now - lastFetchTime < cacheDuration

Init ==
  /\ variant \in Variants
  /\ uploadKey \in
       IF variant \in FileVariants
         THEN {[set |-> FALSE, val |-> ""], [set |-> TRUE, val |-> "s3cret"]}
         ELSE {[set |-> FALSE, val |-> ""]}
  /\ clock = StartMs
  /\ file \in
       IF variant \in FileVariants
         THEN {AbsentFile(TRUE), AbsentFile(FALSE), FileOf(NotJson),
               FileOf(Text(NullDoc)),
               FileOf(Text(Doc("obj", Str("2025-01-01"), ArrPL(<<E_Rex, E_Full>>),
                               UndefPL, UndefInner, <<>>)))}
         ELSE {AbsentFile(TRUE)}
  /\ cachedLedger = NullRef
  /\ lastFetchTime = 0
  /\ calls = [c \in Callers |-> IdleCall]
  /\ loads = 0
  /\ resp = NoResponse
  /\ requests = 0
  /\ session = ""
  /\ nIn = NotJson
  /\ nOut = Throw
  /\ nOut2 = Throw
  /\ nAlias = Throw
  /\ nPhase = "off"

(***************************************************************************)
(* server.js: GET /status (198-273) with loadLedger (100-123) inlined up to *)
(* its first await.  A request whose cache is fresh answers at once; the    *)
(* others wait for the fetch.                                               *)
(***************************************************************************)
StatusStart(c, q) ==
  /\ variant = "server_js"
  /\ calls[c].pc # "fetching"
  /\ loads < MaxLoads
  /\ loads' = loads + 1
  /\ LET raw == IF q # "" THEN q ELSE session
         user == toLowerCase(raw)
         started == [IdleCall EXCEPT !.serial = loads + 1, !.raw = raw,
                                     !.user = user, !.now = clock]
     IN calls' = [calls EXCEPT ![c] =
          IF user = ""
            THEN [started EXCEPT !.pc = "done",
                                 !.resp = Response(302, "redirect", raw, <<>>, 0)]
          ELSE IF IsFresh(clock)
            THEN [started EXCEPT !.pc = "done", !.hit = TRUE,
                                 !.ret = cachedLedger,
                                 !.resp = RenderStatus(cachedLedger.val, raw, user)]
          ELSE [started EXCEPT !.pc = "fetching", !.fetched = TRUE,
                               !.fetches = 1]]
  /\ UNCHANGED <<variant, uploadKey, clock, file, cachedLedger, lastFetchTime,
                 resp, requests, session, harnessVars>>

\* server.js:120-121: what the catch block returns
Fallback(cache, serial) ==
  IF ~cache.isNull THEN cache ELSE Ref(serial, EmptyLedger)

\* loadLedger without its line 116: the timestamp is never written
RefreshStamp_neverWritten(c) == lastFetchTime

\* server.js:116 moved in front of the await: every call stamps when it starts
\* to fetch, so the stamp that stands is the one of the call that started last
RefreshStamp_stampedAtStart(c) ==
  LET last == CHOOSE d \in Callers :
                /\ calls[d].fetches = 1
                /\ \A e \in Callers :
                     calls[e].fetches = 1 => calls[e].serial <= calls[d].serial
  IN calls[last].now

\* server.js:116  lastFetchTime = now, the now of line 101 of the same call
RefreshStamp(c) == calls[c].now

\* server.js:109-122: the fetch settles; then the handler renders
FetchDone(c, outcome, body) ==
  /\ variant = "server_js"
  /\ calls[c].pc = "fetching"
  /\ LET data == IF outcome = "ok" THEN normalizeData(body, clock) ELSE Throw
         fresh == Ref(calls[c].serial, data)
         ret == IF ~data.threw THEN fresh
                ELSE Fallback(cachedLedger, calls[c].serial)
     IN /\ cachedLedger' = IF data.threw THEN cachedLedger ELSE fresh
        /\ lastFetchTime' = IF data.threw THEN lastFetchTime ELSE RefreshStamp(c)
        /\ calls' = [calls EXCEPT ![c] =
             [@ EXCEPT !.pc = "done", !.ret = ret, !.outcome = outcome,
                       !.failed = data.threw,
                       !.resp = RenderStatus(ret.val, calls[c].raw, calls[c].user)]]
  /\ UNCHANGED <<variant, uploadKey, clock, file, loads, resp, requests,
                 session, harnessVars>>

(***************************************************************************)
(* part_002: GET /status (163-327) with the cacheless loadLedger (79-90).   *)
(* Every request fetches.  The card template reads lastUpdated (278) before *)
(* its declaration (323), so rendering a card raises a ReferenceError and   *)
(* the request gets no response.                                            *)
(***************************************************************************)
StatusStart_part_002(c, q) ==
  /\ variant = "part_002"
  /\ calls[c].pc # "fetching"
  /\ loads < MaxLoads
  /\ loads' = loads + 1
  /\ calls' = [calls EXCEPT ![c] =
       [IdleCall EXCEPT !.serial = loads + 1, !.raw = q, !.user = toLowerCase(q),
                        !.now = clock, !.pc = "fetching", !.fetched = TRUE,
                        !.fetches = 1]]
  /\ UNCHANGED <<variant, uploadKey, clock, file, cachedLedger, lastFetchTime,
                 resp, requests, session, harnessVars>>

\* part_002:86-89  catch: return []
EmptyList == Result("list", Undef, <<>>)

\* part_002:81-85: the status of the answer is not looked at
FetchDone_part_002(c, outcome, body) ==
  /\ variant = "part_002"
  /\ calls[c].pc = "fetching"
  /\ LET data == IF outcome = "error" THEN Throw
                 ELSE normalizeData_part_002(body, clock)
         ret == Ref(calls[c].serial, IF data.threw THEN EmptyList ELSE data)
         idx == FindPlayer(ret.val.players, calls[c].user)
     IN calls' = [calls EXCEPT ![c] =
          [@ EXCEPT !.pc = "done", !.ret = ret, !.outcome = outcome,
                    !.failed = data.threw,
                    !.resp = IF idx = 0
                               THEN Response(200, "nodata", calls[c].raw,
                                             ret.val.players, 0)
                               ELSE Response(0, "raised", calls[c].raw,
                                             ret.val.players, idx)]]
  /\ UNCHANGED <<variant, uploadKey, clock, file, cachedLedger, lastFetchTime,
                 loads, resp, requests, session, harnessVars>>

(***************************************************************************)
(* The session: the OAuth callback, logout and the home page.               *)
(***************************************************************************)
\* server.js:136-174, part_000:124-164, part_002:103-139
Callback(outcome, login) ==
  /\ variant \in SessionVariants
  /\ IF outcome = "ok"
       THEN /\ session' = toLowerCase(login)
            /\ resp' = Answer("callback", 302, "redirect")
       ELSE /\ session' = session
            /\ resp' = Answer("callback", 400, "bad_request")
  /\ UNCHANGED <<variant, uploadKey, clock, file, cachedLedger, lastFetchTime,
                 calls, loads, requests, harnessVars>>

\* server.js:176-178
Logout ==
  /\ variant \in SessionVariants
  /\ session' = ""
  /\ resp' = Answer("logout", 302, "redirect")
  /\ UNCHANGED <<variant, uploadKey, clock, file, cachedLedger, lastFetchTime,
                 calls, loads, requests, harnessVars>>

\* part_000:201-259
Home_part_000(q) ==
  /\ variant = "part_000"
  /\ requests < MaxRequests
  /\ requests' = requests + 1
  /\ session' = IF session = "" /\ q # "" THEN toLowerCase(q) ELSE session
  /\ resp' = IF session' # ""
               THEN Answer("home", 302, "redirect")
               ELSE Answer("home", 200, "login")
  /\ UNCHANGED <<variant, uploadKey, clock, file, cachedLedger, lastFetchTime,
                 calls, loads, harnessVars>>

(***************************************************************************)
(* part_000: the local-file revision.                                       *)
(***************************************************************************)
\* part_000:59-67.  threw: writeFileSync raised; file: the file afterwards
safeReadFile(f) ==
  IF f.exists THEN [threw |-> FALSE, text |-> f.text, file |-> f]
  ELSE IF ~f.writable THEN [threw |-> TRUE, text |-> NotJson, file |-> f]
  ELSE [threw |-> FALSE, text |-> Text(BlankLedgerDoc),
        file |-> [f EXCEPT !.exists = TRUE, !.text = Text(BlankLedgerDoc)]]

\* part_000:101-104
loadLedger_part_000(f, now) ==
  LET r == safeReadFile(f)
      L == IF r.threw THEN Throw ELSE normalizeData_part_000(r.text, now)
  IN [threw |-> L.threw, val |-> L, file |-> r.file]

\* part_000:106-111 and 262-337.  An exception leaves the handler and Express
\* answers 500.
Status_part_000(q) ==
  /\ variant = "part_000"
  /\ requests < MaxRequests
  /\ requests' = requests + 1
  /\ LET user == toLowerCase(q)
         r == loadLedger_part_000(file, clock)
     IN /\ file' = r.file
        /\ resp' = IF r.threw THEN Response(500, "error", q, <<>>, 0)
                   ELSE RenderStatus(r.val, q, toLowerCase(user))
  /\ UNCHANGED <<variant, uploadKey, clock, cachedLedger, lastFetchTime, calls,
                 loads, session, harnessVars>>

\* the Authorization header of a request
AuthHeaders ==
  {[present |-> FALSE, val |-> ""],
   [present |-> TRUE, val |-> "Bearer s3cret"],
   [present |-> TRUE, val |-> "Bearer undefined"],
   [present |-> TRUE, val |-> "Bearer wrong"],
   [present |-> TRUE, val |-> "s3cret"]}

\* part_000:175  `Bearer ${process.env.UPLOAD_KEY}`
ExpectedAuth == "Bearer " \o (IF uploadKey.set THEN uploadKey.val ELSE "undefined")

\* part_000:175  auth !== ...
Unauthorized(auth) == ~auth.present \/ auth.val # ExpectedAuth

\* the bodies a writer posts
UploadBodies ==
  {Doc("obj", Undef, UndefPL, UndefPL,
       Inner("obj", Undef, ArrPL(<<E_Rex>>), UndefPL, <<>>), <<>>),
   Doc("obj", Str("2025-01-01"), UndefPL, UndefPL,
       Inner("obj", Str("2024-06-30"), UndefPL, ArrPL(<<E_User, E_Ann>>), <<>>), <<>>),
   Doc("obj", Str("2025-01-01"), ArrPL(<<E_Ann, E_BadGold>>), UndefPL, UndefInner, <<>>),
   Doc("obj", Undef, UndefPL, ArrPL(<<E_Full>>), UndefInner, <<>>),
   Doc("obj", Undef, NumPL(5), UndefPL, UndefInner, <<>>),
   Doc("obj", Undef, UndefPL, UndefPL,
       Inner("obj", Undef, ArrPL(<<NullEntry>>), UndefPL, <<>>), <<>>),
   EmptyObjDoc}

\* part_000:184-186  data ? { lastUpdated: lastUpdated || now, ...data } : req.body
UploadDoc(body, now) ==
  IF Truthy(body.data)
    THEN Doc("obj",
             IF body.data.t = "obj" /\ body.data.lastUpdated.t # "undef"
               THEN body.data.lastUpdated
               ELSE Or(body.lastUpdated, toISOString(now)),
             IF body.data.t = "obj" THEN body.data.players ELSE UndefPL,
             IF body.data.t = "obj" THEN body.data.playerList ELSE UndefPL,
             UndefInner, <<>>)
    ELSE body

\* part_000:173-196
Upload_part_000(auth, body) ==
  /\ variant = "part_000"
  /\ requests < MaxRequests
  /\ requests' = requests + 1
  /\ IF Unauthorized(auth)
       THEN /\ resp' = [UploadAnswer(401, "unauthorized", auth) EXCEPT !.body = body]
            /\ file' = file
       ELSE LET wrapped == normalizeData_part_000(
                             JSONstringifyDoc(UploadDoc(body, clock)), clock)
            IN IF wrapped.threw \/ ~file.writable
                 THEN /\ resp' = [UploadAnswer(500, "error", auth) EXCEPT !.body = body]
                      /\ file' = file
                 ELSE /\ resp' = [UploadAnswer(200, "success", auth) EXCEPT !.body = body]
                      /\ file' = [file EXCEPT !.exists = TRUE,
                                              !.text = JSONstringify(wrapped)]
  /\ UNCHANGED <<variant, uploadKey, clock, cachedLedger, lastFetchTime, calls,
                 loads, session, harnessVars>>

(***************************************************************************)
(* part_001:1-161: the first revision, which reads and writes the file      *)
(* without normalizing.                                                     *)
(***************************************************************************)
\* part_001:83  parsed.players?.find(p => p.username === user): the first index
\* at which the scan stops, either on a match or on an entry that cannot be read
ScanStop(es, user) ==
  IF \E i \in 1..Len(es) : ReadThrows(es[i]) \/ es[i].username = Str(user)
    THEN CHOOSE i \in 1..Len(es) :
           /\ ReadThrows(es[i]) \/ es[i].username = Str(user)
           /\ \A j \in 1..(i - 1) : ~(ReadThrows(es[j]) \/ es[j].username = Str(user))
    ELSE 0

\* part_001:70-130
Status_part_001(q) ==
  /\ variant = "part_001"
  /\ requests < MaxRequests
  /\ requests' = requests + 1
  /\ LET user == toLowerCase(q)
         parsed == JSONparse(file.text)
         es == parsed.players.elems
         i == ScanStop(es, user)
     IN resp' =
          IF user = "" THEN Response(200, "nouser", q, <<>>, 0)
          ELSE IF ~file.exists \/ ParseThrows(file.text) \/ ReadThrows(parsed)
            THEN Response(500, "error", q, <<>>, 0)
          ELSE IF parsed.players.t \in {"undef", "null"}
            THEN Response(200, "nodata", q, <<>>, 0)
          ELSE IF ~IsArray(parsed.players)
            THEN Response(500, "error", q, <<>>, 0)
          ELSE IF i = 0 THEN Response(200, "nodata", q, es, 0)
          ELSE IF ReadThrows(es[i]) THEN Response(500, "error", q, es, 0)
          ELSE IF es[i].inventory.t \notin {"undef", "null", "arr"}
            THEN Response(500, "error", q, es, i)
          ELSE Response(200, "card", q, es, i)
  /\ UNCHANGED <<variant, uploadKey, clock, file, cachedLedger, lastFetchTime,
                 calls, loads, session, harnessVars>>

\* part_001:135-154
Upload_part_001(auth, body) ==
  /\ variant = "part_001"
  /\ requests < MaxRequests
  /\ requests' = requests + 1
  /\ IF Unauthorized(auth)
       THEN /\ resp' = [UploadAnswer(401, "unauthorized", auth) EXCEPT !.body = body]
            /\ file' = file
       ELSE IF ReadThrows(body.data) \/ ~file.writable
         THEN /\ resp' = [UploadAnswer(500, "error", auth) EXCEPT !.body = body]
              /\ file' = file
       ELSE LET players == Or(body.data.playerList,
                              Or(body.data.players, ArrPL(<<>>)))
                wrapped == Doc("obj", Or(body.lastUpdated, toISOString(clock)),
                               players, UndefPL, UndefInner, <<>>)
            IN /\ resp' = [UploadAnswer(200, "success", auth) EXCEPT !.body = body]
               /\ file' = [file EXCEPT !.exists = TRUE,
                                       !.text = JSONstringifyDoc(wrapped)]
  /\ UNCHANGED <<variant, uploadKey, clock, cachedLedger, lastFetchTime, calls,
                 loads, session, harnessVars>>

Next ==
  \/ Tick
  \/ \E c \in Callers, q \in Users : StatusStart(c, q)
  \/ \E c \in Callers, o \in FetchOutcomes, b \in RemoteTexts : FetchDone(c, o, b)
  \/ \E c \in Callers, q \in Users : StatusStart_part_002(c, q)
  \/ \E c \in Callers, o \in FetchOutcomes, b \in RemoteTexts :
       FetchDone_part_002(c, o, b)
  \/ \E o \in {"ok", "no_code", "no_token", "no_user"}, l \in Logins : Callback(o, l)
  \/ Logout
  \/ \E q \in Users : Home_part_000(q)
  \/ \E q \in Users : Status_part_000(q)
  \/ \E a \in AuthHeaders, b \in UploadBodies : Upload_part_000(a, b)
  \/ \E q \in Users : Status_part_001(q)
  \/ \E a \in AuthHeaders, b \in UploadBodies : Upload_part_001(a, b)

Spec == Init /\ [][Next]_vars

(***************************************************************************)
(* C1.  normalizeData is total: for every input text it returns a Ledger    *)
(* with a lastUpdated value and a players sequence and never raises         *)
(* (the normalizeData of server.js and of part_000).                        *)
(***************************************************************************)
C1_NormalizeTotal ==
  (nPhase = "normalized" /\ variant \in {"server_js", "part_000"}) =>
    /\ ~nOut.threw
    /\ nOut.shape = "ledger"
    /\ Truthy(nOut.lastUpdated)

\* caller c starts a /status request in this step
Starts(c) == loads' = loads + 1 /\ calls'[c].serial = loads + 1

\* the fetch of caller c settles in this step
Settles(c) == calls[c].pc = "fetching" /\ calls'[c].pc = "done"

(***************************************************************************)
(* C2.  Remote fetch: once a fetch has succeeded, every call made while     *)
(* now - lastFetchTime is inside the freshness window returns the very      *)
(* Ledger object that is cached and issues no network fetch.                *)
(***************************************************************************)
C2_FreshCallServedFromCache ==
  [][\A c \in Callers :
       (/\ Starts(c)
        /\ calls'[c].user # ""
        /\ ~cachedLedger.isNull
        /\ clock - lastFetchTime < cacheDuration)
       => (/\ calls'[c].pc = "done"
           /\ ~calls'[c].fetched
           /\ calls'[c].ret = cachedLedger
           /\ cachedLedger' = cachedLedger
           /\ lastFetchTime' = lastFetchTime)]_vars

\* one caller fetched successfully, the other asked 7.5 s later and was handed
\* the same object without fetching
C2_Witness ==
  \E c, d \in Callers :
    /\ calls[c].pc = "done" /\ calls[c].fetched /\ calls[c].outcome = "ok"
    /\ ~calls[c].failed
    /\ calls[d].pc = "done" /\ ~calls[d].fetched
    /\ calls[d].now > calls[c].now
    /\ calls[d].ret = calls[c].ret
    /\ calls[d].ret.id = calls[c].serial

(***************************************************************************)
(* C3.  Remote fetch: when a fetch fails (network error or non-success      *)
(* status) after an earlier fetch has succeeded, the call returns the       *)
(* Ledger kept from that success, and the kept Ledger and its fetch         *)
(* timestamp are left unchanged.                                            *)
(***************************************************************************)
\* a fetch of another caller has succeeded before this step
SucceededEarlier(c) ==
  \E d \in Callers \ {c} :
    /\ calls[d].pc = "done" /\ calls[d].fetched
    /\ calls[d].outcome = "ok" /\ ~calls[d].failed

C3_FailedFetchReturnsStale ==
  [][\A c \in Callers :
       (/\ Settles(c)
        /\ calls'[c].outcome \in {"bad_status", "error"}
        /\ SucceededEarlier(c))
       => (/\ ~cachedLedger.isNull
           /\ calls'[c].ret = cachedLedger
           /\ cachedLedger' = cachedLedger
           /\ lastFetchTime' = lastFetchTime)]_vars

(***************************************************************************)
(* C4.  Remote fetch: when a fetch fails (network error or non-success      *)
(* status) and nothing has been cached, the call returns the empty Ledger   *)
(* { lastUpdated: "Never", players: [] } and the cache stays empty.         *)
(***************************************************************************)
C4_FailedFetchNoCacheReturnsEmpty ==
  [][\A c \in Callers :
       (/\ Settles(c)
        /\ calls'[c].outcome \in {"bad_status", "error"}
        /\ cachedLedger.isNull)
       => (/\ calls'[c].ret.val = EmptyLedger
           /\ cachedLedger'.isNull)]_vars

(***************************************************************************)
(* C5.  loadLedger never raises, in either strategy: whatever the state of  *)
(* the source, it returns a Ledger value.                                   *)
(***************************************************************************)
C5_LoadLedgerNeverRaises ==
  /\ variant = "part_000" => ~loadLedger_part_000(file, clock).threw
  /\ \A c \in Callers :
       calls[c].pc = "done" /\ calls[c].resp.page # "redirect"
         => ~calls[c].ret.isNull /\ ~calls[c].ret.val.threw

(***************************************************************************)
(* C6.  Upload: a request whose Authorization header is not exactly         *)
(* "Bearer " followed by the configured shared secret is answered 401 and   *)
(* leaves the ledger file unchanged, also when no secret is configured.     *)
(***************************************************************************)
\* the header is "Bearer " followed by the configured secret
CarriesSecret(auth) ==
  uploadKey.set /\ auth.present /\ auth.val = "Bearer " \o uploadKey.val

C6_WrongBearerRejected ==
  [][(/\ requests' = requests + 1
      /\ resp'.route = "upload"
      /\ ~CarriesSecret(resp'.auth))
     => (resp'.status = 401 /\ file' = file)]_vars

(***************************************************************************)
(* C7.  After an authorized upload is accepted, the persisted ledger file   *)
(* holds a canonical Ledger: lastUpdated plus players whose records carry   *)
(* every normalized field, whatever shape the body had.                     *)
(***************************************************************************)
CanonicalRecord(e) ==
  /\ e.t = "obj"
  /\ \A f \in {"username", "usernameLower", "currentTitle", "titles", "gold",
               "health", "drunkenness", "honour", "questsCompleted",
               "inventory"} : e[f].t # "undef"

CanonicalText(tx) ==
  /\ tx.ok
  /\ tx.doc.t = "obj"
  /\ tx.doc.lastUpdated.t # "undef"
  /\ IsArray(tx.doc.players)
  /\ \A i \in 1..Len(tx.doc.players.elems) : CanonicalRecord(tx.doc.players.elems[i])

C7_PersistedLedgerCanonical ==
  (resp.route = "upload" /\ CarriesSecret(resp.auth) /\ resp.status = 200) =>
    (file.exists /\ CanonicalText(file.text))

(***************************************************************************)
(* C8.  Every /status request is answered with a non-failure response       *)
(* whatever the health of the ledger source: the status card for a player   *)
(* that is found, the no-data page for one that is not.                     *)
(***************************************************************************)
GoodStatusAnswer(r) ==
  /\ r.status \in {200, 302}
  /\ r.page \in {"card", "nodata", "nouser", "redirect"}
  /\ r.page = "card" => r.idx > 0
  /\ r.page = "nodata" => r.idx = 0

C8_StatusNeverFails ==
  /\ resp.route = "status" => GoodStatusAnswer(resp)
  /\ \A c \in Callers : calls[c].pc = "done" => GoodStatusAnswer(calls[c].resp)

(***************************************************************************)
(* C9.  Player lookup: the result is the first record in ledger order whose *)
(* usernameKey (the lowercase of its username) equals the lowercased raw    *)
(* username, and the no-data page when there is none; a record stored with  *)
(* a mixed-case username is found by any casing of the query.               *)
(***************************************************************************)
\* the usernameKey of a record equals the lowercased raw name: the key is the
\* usernameLower field of a normalized record and the lowercase of the username
\* of a record read raw from the file
KeyMatches(r, raw) ==
  IF "t" \in DOMAIN r
    THEN /\ r.t \notin {"null", "undef"}
         /\ r.username.t = "str"
         /\ toLowerCase(r.username.s) = toLowerCase(raw)
    ELSE r.usernameLower = Str(toLowerCase(raw))

FirstKeyMatch(players, raw) ==
  IF \E i \in 1..Len(players) : KeyMatches(players[i], raw)
    THEN CHOOSE i \in 1..Len(players) :
           /\ KeyMatches(players[i], raw)
           /\ \A j \in 1..(i - 1) : ~KeyMatches(players[j], raw)
    ELSE 0

LookupRight(r) ==
  (r.route = "status" /\ r.page \in {"card", "nodata"}) =>
    /\ r.idx = FirstKeyMatch(r.players, r.user)
    /\ r.page = "card" <=> r.idx > 0

C9_LookupFirstMatchAnyCase ==
  /\ LookupRight(resp)
  /\ \A c \in Callers : calls[c].pc = "done" => LookupRight(calls[c].resp)

LoadsFile == variant = "part_000" /\ requests' = requests + 1 /\ resp'.route = "status"

C11_AbsentFileBlanked ==
  [][(LoadsFile /\ ~file.exists)
     => (/\ file'.exists
         /\ file'.text = Text(BlankLedgerDoc)
         /\ resp'.status = 200 /\ resp'.page = "nodata" /\ resp'.players = <<>>
         /\ ~safeReadFile(file').threw
         /\ safeReadFile(file').text = Text(BlankLedgerDoc))]_vars

(***************************************************************************)
(* The raw entries behind a normalized result: the elements of the list     *)
(* that the running revision resolved from the text nIn.                    *)
(***************************************************************************)
RawEntries ==
  IF ParseThrows(nIn) THEN <<>>
  ELSE CASE variant = "part_000" ->
              ResolvePlayers_part_000(WorkingObject(JSONparse(nIn))).elems
         [] variant = "part_002" -> ResolvePlayers_part_002(JSONparse(nIn)).elems
         [] OTHER -> ResolvePlayers(JSONparse(nIn)).elems

\* normalizeData has returned a value for nIn
Normalized == nPhase = "normalized" /\ ~nOut.threw

NumericFields == {"gold", "health", "drunkenness", "honour", "questsCompleted"}

DefaultOf(f) == IF f = "health" THEN Num(100) ELSE Num(0)

(***************************************************************************)
(* C12.  Every numeric field of every normalized record is a finite number: *)
(* the raw value when that is a finite number, otherwise the default (100   *)
(* for health, 0 for the others); no string, null or boolean gets through   *)
(* (the normalizeData of server.js and of part_000).                        *)
(***************************************************************************)
C12_NumericFieldsFinite ==
  (Normalized /\ variant \in {"server_js", "part_000"}) =>
    \A i \in 1..Len(nOut.players) : \A f \in NumericFields :
      nOut.players[i][f] =
        IF RawEntries[i][f].t = "num" THEN RawEntries[i][f] ELSE DefaultOf(f)

(***************************************************************************)
(* C13.  A raw entry that omits fields is normalized to a record carrying   *)
(* all ten fields, the omitted ones with their defaults: currentTitle       *)
(* "Regular", titles ["Regular"], gold 0, health 100, drunkenness 0,        *)
(* honour 0, questsCompleted 0, inventory empty; username and usernameKey   *)
(* come from the entry.                                                     *)
(***************************************************************************)
RecordFields ==
  {"username", "usernameLower", "currentTitle", "titles", "gold", "health",
   "drunkenness", "honour", "questsCompleted", "inventory"}

DefaultsFilled(e, r) ==
  /\ \A f \in RecordFields : r[f] # Undef
  /\ (e.currentTitle = Undef /\ e.titles = Undef) => r.currentTitle = Str("Regular")
  /\ e.titles = Undef => r.titles = Arr(<<"Regular">>)
  /\ \A f \in NumericFields : e[f] = Undef => r[f] = DefaultOf(f)
  /\ e.inventory = Undef => r.inventory = Arr(<<>>)
  /\ (e.username.t = "str" /\ e.username.s # "")
       => (r.username = e.username /\ r.usernameLower = Str(toLowerCase(e.username.s)))

C13_OmittedFieldsDefaulted ==
  Normalized => \A i \in 1..Len(nOut.players) : DefaultsFilled(RawEntries[i], nOut.players[i])

(***************************************************************************)
(* C14.  In every record of every result of normalizeData the username is  *)
(* the string form of the first non-empty of the raw username, name and     *)
(* user (the empty string when there is none) and usernameKey is the        *)
(* lowercase of that username, whatever key the input carried.              *)
(***************************************************************************)
FirstNonEmptyName(e) == Or(e.username, Or(e.name, Or(e.user, Str(""))))

C14_UsernameKeyDerived ==
  Normalized =>
    \A i \in 1..Len(nOut.players) :
      /\ nOut.players[i].username = Str(toString(FirstNonEmptyName(RawEntries[i])))
      /\ nOut.players[i].usernameLower = Str(toLowerCase(nOut.players[i].username.s))

(***************************************************************************)
(* C20.  currentTitle of a normalized record: with a non-empty raw titles   *)
(* array it is the raw currentTitle if set, else the first title, else      *)
(* "Regular"; with titles absent, empty or not an array it is the raw       *)
(* currentTitle if set, else "Regular" (server.js and part_000).            *)
(***************************************************************************)
ExpectedTitle(e) ==
  IF IsArray(e.titles) /\ Len(e.titles.a) > 0
    THEN Or(e.currentTitle, Or(Str(e.titles.a[1]), Str("Regular")))
    ELSE Or(e.currentTitle, Str("Regular"))

C20_CurrentTitleResolved ==
  (Normalized /\ variant \in {"server_js", "part_000"}) =>
    \A i \in 1..Len(nOut.players) :
      nOut.players[i].currentTitle = ExpectedTitle(RawEntries[i])

(***************************************************************************)
(* C15.  Field-name aliasing is symmetric: for every sequence X of raw      *)
(* entries, normalizing {"playerList": X} gives the same player records as  *)
(* normalizing {"players": X} (and raises exactly when the other does).     *)
(***************************************************************************)
\* nIn is an object holding the list under exactly one of the two names
OneListName ==
  /\ ~ParseThrows(nIn)
  /\ nIn.doc.t = "obj"
  /\ nIn.doc.data = UndefInner
  /\ \/ IsArray(nIn.doc.players) /\ nIn.doc.playerList = UndefPL
     \/ IsArray(nIn.doc.playerList) /\ nIn.doc.players = UndefPL

C15_AliasSymmetric ==
  (nPhase = "normalized" /\ variant \in {"server_js", "part_000"} /\ OneListName) =>
    /\ nAlias.threw = nOut.threw
    /\ nAlias.players = nOut.players

\* {"playerList":[{"name":"Ann"}, ...]} came out as two records, Ann first, and
\* so did the same list sent as players
C15_Witness ==
  /\ nPhase = "normalized"
  /\ OneListName
  /\ IsArray(nIn.doc.playerList)
  /\ ~nOut.threw
  /\ Len(nOut.players) = 2
  /\ nOut.players[1].username = Str("Ann")
  /\ nOut.players[1].usernameLower = Str("ann")
  /\ nAlias.players = nOut.players

(***************************************************************************)
(* C16.  The player list is resolved from the working object (the nested    *)
(* data field when present, else the parsed value) by trying in order its   *)
(* players field, its playerList field, the working object itself when it   *)
(* is a sequence, else the empty sequence; the first present candidate      *)
(* wins, so players is used when both names are present.                    *)
(***************************************************************************)
ExpectedList(parsed) ==
  LET W == IF parsed.data.t # "undef" THEN parsed.data ELSE parsed
  IN IF W.players.t # "undef" THEN W.players
     ELSE IF W.playerList.t # "undef" THEN W.playerList
     ELSE IF W.t = "arr" THEN ArrPL(W.elems)
     ELSE ArrPL(<<>>)

\* the record the running revision makes of one raw entry
RecordOf(e) ==
  CASE variant = "part_000" -> NormalizePlayer_part_000(e)
    [] variant = "part_002" -> NormalizePlayer_part_002(e)
    [] OTHER -> NormalizePlayer(e)

C16_PlayersBeforePlayerList ==
  (Normalized /\ variant \in {"server_js", "part_000"} /\ ~ParseThrows(nIn)) =>
    LET X == ExpectedList(JSONparse(nIn)).elems
    IN nOut.players = [i \in 1..Len(X) |-> RecordOf(X[i])]

(***************************************************************************)
(* C17.  Remote fetch with cache (server.js): a call made when the cache is *)
(* empty or older than the freshness window issues exactly one network      *)
(* fetch; when the fetch succeeds the cached (Ledger, timestamp) pair is    *)
(* replaced by the normalized response and the call returns that new        *)
(* Ledger; a failed fetch is not retried within the call.                   *)
(***************************************************************************)
\* the cache is empty or older than the window when the step begins
Misses == cachedLedger.isNull \/ clock - lastFetchTime >= cacheDuration

C17_MissFetchesOnceAndReplaces ==
  [][variant = "server_js" =>
       \A c \in Callers :
         /\ (Starts(c) /\ calls'[c].user # "" /\ Misses)
              => (calls'[c].pc = "fetching" /\ calls'[c].fetches = 1)
         /\ Settles(c)
              => /\ calls'[c].fetches = 1
                 /\ ~calls'[c].failed
                      => /\ calls'[c].ret.id = calls[c].serial
                         /\ calls'[c].ret.val \in
                              {normalizeData(b, clock) : b \in RemoteTexts}
                         /\ ~calls'[c].ret.val.threw
                         /\ cachedLedger' = calls'[c].ret
                         /\ lastFetchTime' = calls[c].now]_vars

\* a call that began 15 s after an earlier successful fetch fetched once more,
\* and its two-player Ledger and its own start time are now the cached pair
C17_Witness ==
  \E c, d \in Callers :
    /\ calls[d].pc = "done" /\ calls[d].fetches = 1
    /\ calls[d].outcome = "ok" /\ ~calls[d].failed
    /\ calls[c].pc = "done" /\ calls[c].fetches = 1
    /\ calls[c].outcome = "ok" /\ ~calls[c].failed
    /\ calls[c].now - calls[d].now >= cacheDuration
    /\ calls[c].ret # calls[d].ret
    /\ cachedLedger = calls[c].ret
    /\ lastFetchTime = calls[c].now
    /\ Len(cachedLedger.val.players) = 2

(***************************************************************************)
(* C18.  Two loadLedger calls that both miss the window and run interleaved *)
(* each issue their own fetch, and in every reachable state the cached pair *)
(* is the Ledger and the timestamp of one single completed refresh: both    *)
(* are written in the same step, from the same call.                        *)
(***************************************************************************)
\* if the cached Ledger is the one call c fetched, the timestamp is that call's
PairMatched ==
  /\ cachedLedger.isNull => lastFetchTime = 0
  /\ ~cachedLedger.isNull => ~cachedLedger.val.threw /\ cachedLedger.val.shape = "ledger"
  /\ \A c \in Callers :
       (calls[c].pc = "done" /\ calls[c].fetches = 1 /\ calls[c].ret = cachedLedger
        /\ cachedLedger.id = calls[c].serial)
         => lastFetchTime = calls[c].now

PairWrittenAtOnce ==
  /\ \A c \in Callers :
       (Starts(c) /\ variant = "server_js" /\ calls'[c].user # "" /\ Misses
        /\ \E d \in Callers \ {c} : calls[d].pc = "fetching")
         => (calls'[c].pc = "fetching" /\ calls'[c].fetches = 1)
  /\ (cachedLedger' # cachedLedger \/ lastFetchTime' # lastFetchTime)
       => \E c \in Callers :
            /\ Settles(c) /\ ~calls'[c].failed
            /\ cachedLedger' = calls'[c].ret
            /\ cachedLedger'.id = calls[c].serial
            /\ lastFetchTime' = calls[c].now

C18_CachedPairMatched == [](PairMatched) /\ [][PairWrittenAtOnce]_vars

\* two calls were in flight together; the one that began first completed last,
\* so the cache holds its Ledger with its (older) start time
C18_Witness ==
  \E c, d \in Callers :
    /\ calls[c].pc = "done" /\ calls[c].fetches = 1 /\ ~calls[c].failed
    /\ calls[d].pc = "done" /\ calls[d].fetches = 1 /\ ~calls[d].failed
    /\ calls[c].outcome = "ok" /\ calls[d].outcome = "ok"
    /\ calls[c].now < calls[d].now
    /\ calls[d].now - calls[c].now < cacheDuration
    /\ cachedLedger = calls[c].ret
    /\ cachedLedger # calls[d].ret
    /\ lastFetchTime = calls[c].now

(***************************************************************************)
(* C19.  Upload of a body shaped {lastUpdated, data}: the lastUpdated of    *)
(* the persisted Ledger is the top-level lastUpdated of the body when one   *)
(* is given and the current time otherwise, also when the data envelope     *)
(* itself contains a lastUpdated field.                                     *)
(***************************************************************************)
C19_TopLevelStampPersisted ==
  [][(/\ requests' = requests + 1
      /\ resp'.route = "upload"
      /\ resp'.status = 200
      /\ resp'.body.data.t = "obj")
     => (/\ file'.exists
         /\ file'.text.ok
         /\ file'.text.doc.lastUpdated =
              Or(resp'.body.lastUpdated, toISOString(clock)))]_vars

(***************************************************************************)
(* C21.  lastUpdated of a normalized Ledger is the raw top-level            *)
(* lastUpdated when that is present and truthy and the timestamp of the     *)
(* moment of normalization otherwise, so it is never empty; for a text that *)
(* is not JSON it is that timestamp too (server.js and part_000).           *)
(***************************************************************************)
C21_LastUpdatedResolved ==
  [][(/\ nPhase = "ready" /\ nPhase' = "normalized"
      /\ variant \in {"server_js", "part_000"}
      /\ ~nOut'.threw)
     => (/\ Truthy(nOut'.lastUpdated)
         /\ nOut'.lastUpdated =
              IF ~ParseThrows(nIn) /\ Truthy(JSONparse(nIn).lastUpdated)
                THEN JSONparse(nIn).lastUpdated
                ELSE toISOString(clock))]_vars

(***************************************************************************)
(* C22.  The cache never regresses: across any interleaving of loadLedger   *)
(* calls lastFetchTime never decreases, and a refresh that started before   *)
(* the cached one but completes after it does not overwrite the cached      *)
(* Ledger.                                                                  *)
(***************************************************************************)
C22_CacheNeverRegresses ==
  [][/\ lastFetchTime' >= lastFetchTime
     /\ \A c \in Callers :
          (Settles(c) /\ ~cachedLedger.isNull /\ calls[c].now < lastFetchTime)
            => cachedLedger' = cachedLedger]_vars

(***************************************************************************)
(* C23.  In every reachable state of the remote-fetch adapter cachedLedger  *)
(* is null exactly when lastFetchTime is 0, a cachedLedger that is not null *)
(* is a value normalizeData returned for a response body, and once          *)
(* populated the cache is never emptied again by a later success or         *)
(* failure.                                                                 *)
(***************************************************************************)
\* the values Date.now() takes in a run
ClockValues ==
  UNION {{StartMs + k * d : k \in 0..(MaxElapsed \div d)} : d \in TickSteps}

CacheWellFormed ==
  /\ cachedLedger.isNull <=> lastFetchTime = 0
  /\ ~cachedLedger.isNull =>
       /\ ~cachedLedger.val.threw
       /\ \E b \in RemoteTexts, t \in ClockValues :
            cachedLedger.val = normalizeData(b, t)

CacheStaysPopulated == ~cachedLedger.isNull => ~cachedLedger'.isNull

C23_CacheNullIffNeverFetched == [](CacheWellFormed) /\ [][CacheStaysPopulated]_vars

\* a fetch succeeded, a later call that missed the window failed, and the
\* cache still holds the Ledger of the success with its timestamp
C23_Witness ==
  \E c, d \in Callers :
    /\ calls[d].pc = "done" /\ calls[d].fetches = 1
    /\ calls[d].outcome = "ok" /\ ~calls[d].failed
    /\ calls[c].pc = "done" /\ calls[c].fetches = 1 /\ calls[c].failed
    /\ calls[c].now >= calls[d].now + cacheDuration
    /\ cachedLedger = calls[d].ret
    /\ ~cachedLedger.isNull
    /\ lastFetchTime = calls[d].now
    /\ lastFetchTime # 0

(***************************************************************************)
(* C24.  The session username is set only by a successful OAuth callback    *)
(* and cleared only by logout: no other request, in particular no GET of /  *)
(* or /status carrying a user query parameter, changes it.                  *)
(***************************************************************************)
C24_SessionSetOnlyByCallback ==
  [][session' # session
     => \/ resp'.route = "callback" /\ resp'.status = 302 /\ session' # ""
        \/ resp'.route = "logout" /\ session' = ""]_vars

====
